---- MODULE Spec2Model ----
(***************************************************************************)
(* go-metrics-prometheus: the exporter PrometheusConfig of                 *)
(* src/prometheusmetrics.go (the current version, lines 1-162), which      *)
(* copies the instruments of a go-metrics registry into a Prometheus       *)
(* registry.                                                               *)
(*                                                                         *)
(* Strings are sequences of one-character strings.  A float64 is a whole   *)
(* number of thousandths (2.5 is 2500); uint64(f) and time.Duration(f)     *)
(* truncate to a whole number.                                             *)
(***************************************************************************)
EXTENDS Integers, Sequences, FiniteSets, TLC

VARIABLES
    namespace,     \* PrometheusConfig.namespace
    subsystem,     \* PrometheusConfig.subsystem
    Registry,      \* PrometheusConfig.Registry: name -> instrument
    promRegistry,  \* PrometheusConfig.promRegistry: the descriptors registered
    gauges,        \* PrometheusConfig.gauges: composite key -> gauge handle
    histograms,    \* PrometheusConfig.histograms: composite key -> *CustomCollector
    gaugeValue,    \* the value each registered gauge handle holds (g.Set)
    ret,           \* how the last flush ended: "none", "nil", "panic"
    last,          \* what the last step was and, for a flush, what it did
    regCalls,      \* composite key -> MustRegister calls made for a gauge of that key
    descNames,     \* the names handed to prometheus.NewDesc
    exported,      \* the instruments a flush has set the gauge of, by name
    instruments,   \* the instruments the application has: <<name, kind>> pairs
    loop,          \* UpdatePrometheusMetrics: "idle", "running", "flushing", "crashed"
    tickPending,   \* a tick waits in the channel of time.Tick
    ticks,         \* the loop watched by rounds: the ticks the ticker has fired
    flushes,       \* the loop watched by rounds: the flushes the loop has begun
    pc,            \* concurrent flushes: where each flusher stands
    todo,          \* concurrent flushes: the publishes a flusher still has to make
    cur,           \* concurrent flushes: the handle a flusher has built
    useLock,       \* concurrent flushes: the application serializes the flushes
    lock,          \* concurrent flushes: the flusher holding the application's mutex
    fkIn,          \* flattenKey: the argument
    fkOut          \* flattenKey: the result, and the result of flattening it again

vars == <<namespace, subsystem, Registry, promRegistry, gauges, histograms,
          gaugeValue, ret, last, regCalls, descNames, exported, instruments, loop, tickPending,
          ticks, flushes,
          pc, todo, cur, useLock, lock, fkIn, fkOut>>

exporterVars == <<promRegistry, gauges, histograms, gaugeValue, ret, regCalls, descNames,
                  exported>>
loopVars == <<loop, tickPending>>
concVars == <<pc, todo, cur, useLock, lock>>
flattenVars == <<fkIn, fkOut>>
tickerVars == <<ticks, flushes>>

(***************************************************************************)
(* Bounds of the model.                                                    *)
(***************************************************************************)
MaxLen == 3            \* longest argument of flattenKey that is enumerated
MaxCount == 3          \* a Counter is incremented up to this count
MaxSamples == 2        \* a Histogram or Timer holds up to this many samples
MaxTicks == 3          \* the ticker is watched for this many ticks

None == "none"

(***************************************************************************)
(* Strings.                                                                *)
(***************************************************************************)
Chars == {"a", "_", " ", ".", "-", "="}

RECURSIVE StringsUpTo(_)
StringsUpTo(n) ==
    IF n = 0 THEN {<<>>}
    ELSE LET shorter == StringsUpTo(n - 1)
         IN  shorter \cup {Append(s, c) : s \in {t \in shorter : Len(t) = n - 1}, c \in Chars}

\* strings.Replace(s, old, new, -1) for one-character old and new
Replace(s, old, new) ==
    [i \in 1..Len(s) |-> IF s[i] = old THEN new ELSE s[i]]

flattenKeyNoEquals(key) ==
    Replace(Replace(Replace(key, " ", "_"), ".", "_"), "-", "_")

flattenKey(key) ==
    Replace(Replace(Replace(Replace(key, " ", "_"), ".", "_"), "-", "_"), "=", "_")

(***************************************************************************)
(* Numbers.                                                                *)
(***************************************************************************)
\* float64(n) of an integer n
F(n) == n * 1000

\* uint64(f), int64(f), time.Duration(f) of a non-negative float f
Trunc(f) == f \div 1000

RECURSIVE SumSeq(_)
SumSeq(s) == IF s = <<>> THEN 0 ELSE Head(s) + SumSeq(Tail(s))

\* the sample with v added; the model keeps a sample in ascending order, the
\* order in which Percentiles reads it
InsertSorted(s, v) ==
    LET k == Cardinality({i \in 1..Len(s) : s[i] <= v})
    IN  [i \in 1..(Len(s) + 1) |-> IF i <= k THEN s[i] ELSE IF i = k + 1 THEN v ELSE s[i - 1]]

\* go-metrics SamplePercentile: p in thousandths, the result a float
Percentile(vals, p) ==
    LET size == Len(vals)
        pos == p * (size + 1)    \* in thousandths
    IN  IF size = 0 THEN 0
        ELSE IF pos < 1000 THEN F(vals[1])
        ELSE IF pos >= F(size) THEN F(vals[size])
        ELSE LET lower == vals[pos \div 1000]
                 upper == vals[(pos \div 1000) + 1]
             IN  F(lower) + (pos % 1000) * (upper - lower)

Percentiles(vals, ps) == [i \in 1..Len(ps) |-> Percentile(vals, ps[i])]

SampleMean(vals) == IF vals = <<>> THEN 0 ELSE F(SumSeq(vals)) \div Len(vals)
SampleMin(vals) == IF vals = <<>> THEN 0 ELSE vals[1]
SampleMax(vals) == IF vals = <<>> THEN 0 ELSE vals[Len(vals)]

(***************************************************************************)
(* The source registry and its instruments.                                *)
(***************************************************************************)
X == <<"x">>
XMean == <<"x", "_", "m", "e", "a", "n">>
ADotB == <<"a", ".", "b">>
AUnderB == <<"a", "_", "b">>

Names == {X, XMean, ADotB, AUnderB}

Kinds == {"Counter", "Gauge", "GaugeFloat64", "Histogram", "Meter", "Timer", "Healthcheck"}

\* the applications explored, each by the instruments it registers
Applications ==
    { {<<X, "Meter">>, <<XMean, "Counter">>},
      {<<X, "Timer">>, <<XMean, "Counter">>},
      {<<ADotB, "Counter">>, <<AUnderB, "Gauge">>},
      {<<X, "Histogram">>, <<AUnderB, "Histogram">>},
      {<<ADotB, "Histogram">>, <<AUnderB, "GaugeFloat64">>},
      {<<X, "Healthcheck">>, <<X, "Timer">>, <<ADotB, "Counter">>} }

IncAmounts == {1, 2}
GaugeVals == {0, 2}
FloatVals == {0, 2500}
Rates == {0, 500}
SampleVals == {1, 4}

\* metrics.NewCounter(), NewGauge(), ... : an instrument as constructed
NewInstrument(kind) ==
    CASE kind = "Counter" -> [kind |-> kind, count |-> 0]
      [] kind = "Gauge" -> [kind |-> kind, value |-> 0]
      [] kind = "GaugeFloat64" -> [kind |-> kind, value |-> 0]
      [] kind = "Histogram" -> [kind |-> kind, vals |-> <<>>]
      [] kind = "Meter" -> [kind |-> kind, rate1 |-> 0, rateMean |-> 0]
      [] kind = "Timer" -> [kind |-> kind, rate1 |-> 0, vals |-> <<>>]
      [] OTHER -> [kind |-> kind]

Put(f, k, v) == [x \in DOMAIN f \cup {k} |-> IF x = k THEN v ELSE f[x]]
Drop(f, k) == [x \in DOMAIN f \ {k} |-> f[x]]

(***************************************************************************)
(* The destination registry (prometheus.Registerer).                       *)
(***************************************************************************)
Letters ==
    {"a", "b", "c", "d", "e", "f", "g", "h", "i", "j", "k", "l", "m", "n", "o", "p", "q",
     "r", "s", "t", "u", "v", "w", "x", "y", "z", "D", "_", ":"}

Digits == {"0", "1", "2", "3", "4", "5", "6", "7", "8", "9"}

\* model.IsValidMetricName: [a-zA-Z_:][a-zA-Z0-9_:]*
IsValidMetricName(name) ==
    /\ name # <<>>
    /\ name[1] \in Letters
    /\ \A i \in 1..Len(name) : name[i] \in Letters \cup Digits

\* prometheus.BuildFQName
BuildFQName(ns, sub, name) ==
    IF name = <<>> THEN <<>>
    ELSE IF ns # <<>> /\ sub # <<>> THEN ns \o <<"_">> \o sub \o <<"_">> \o name
    ELSE IF ns # <<>> THEN ns \o <<"_">> \o name
    ELSE IF sub # <<>> THEN sub \o <<"_">> \o name
    ELSE name

\* the one descriptor every CustomCollector describes itself by
Dummy == <<"D", "u", "m", "m", "y">>

\* Describe of a CustomCollector: the descriptors of a gauge named Dummy
Describe == {Dummy}

\* Register accepts a collector whose descriptors are valid and not yet registered
Accepts(reg, descs) ==
    /\ \A d \in descs : IsValidMetricName(d)
    /\ descs \cap reg = {}

(***************************************************************************)
(* The exporter.  Its operations work on a record st of the fields they    *)
(* change: promRegistry, gauges, histograms, gaugeValue, regCalls, and     *)
(* descNames, and panicked, set when MustRegister panics.                  *)
(***************************************************************************)
\* fmt.Sprintf("%s_%s_%s", c.namespace, c.subsystem, name)
CompositeKey(name) == namespace \o <<"_">> \o subsystem \o <<"_">> \o name

\* fmt.Sprintf("%s_%s", name, suffix)
Derived(name, suffix) == name \o <<"_">> \o suffix

\* prometheus.NewGauge(GaugeOpts{...}): the handle, named by its descriptor
NewGauge(name) ==
    [fqName |-> BuildFQName(flattenKey(namespace), flattenKey(subsystem), flattenKey(name)),
     help |-> name]

\* one more MustRegister call for key; 2 stands for two or more
Bump(calls, key) ==
    Put(calls, key, IF key \in DOMAIN calls THEN (IF calls[key] < 2 THEN calls[key] + 1 ELSE 2) ELSE 1)

\* g, ok := c.gauges[key]
GaugeCached(cache, key) == key \in DOMAIN cache

\* c.promRegistry.Register(g) with its error dropped: a rejection goes unnoticed
RegisterGaugeQuietly(st, key, g) ==
    LET counted == [st EXCEPT !.regCalls = Bump(@, key)]
    IN  IF Accepts(st.promRegistry, {g.fqName})
        THEN [counted EXCEPT !.promRegistry = @ \cup {g.fqName}]
        ELSE counted

\* c.promRegistry.MustRegister(g): registers, or panics
MustRegisterGauge(st, key, g) ==
    LET counted == [st EXCEPT !.regCalls = Bump(@, key)]
    IN  IF Accepts(st.promRegistry, {g.fqName})
        THEN [counted EXCEPT !.promRegistry = @ \cup {g.fqName}]
        ELSE [counted EXCEPT !.panicked = TRUE]

\* the handle is registered and not put into the cache
GaugeInsertDropped(st, key, g) == st

\* c.gauges[key] = g
GaugeInsert(st, key, g) == [st EXCEPT !.gauges = Put(@, key, g)]

\* g.Set(val)
GaugeSet(st, g, val) == [st EXCEPT !.gaugeValue = Put(@, g, val)]

gaugeFromNameAndValue(st, name, val) ==
    LET key == CompositeKey(name)
    IN  IF GaugeCached(st.gauges, key)
        THEN GaugeSet(st, st.gauges[key], val)
        ELSE LET g == NewGauge(name)
                 registered == MustRegisterGauge(st, key, g)
             IN  IF registered.panicked
                 THEN registered
                 ELSE GaugeSet(GaugeInsert(registered, key, g), g, val)

\* the quantiles of outputPrometheusHistogram, in thousandths
buckets == <<50, 100, 250, 500, 750, 900, 950, 990>>

\* c.promRegistry.MustRegister(h) of a new CustomCollector: registers, or panics
MustRegisterCollector(st) ==
    IF Accepts(st.promRegistry, Describe)
    THEN [st EXCEPT !.promRegistry = @ \cup Describe]
    ELSE [st EXCEPT !.panicked = TRUE]

\* prometheus.NewDesc(key, name, ...) and NewConstHistogram(desc, ...): the
\* sample and err, which is set when key is no valid metric name
NewConstHistogram(key, count, sum, bucketVals) ==
    [err |-> ~IsValidMetricName(key),
     metric |-> [desc |-> key, count |-> count, sum |-> sum, buckets |-> bucketVals]]

\* &CustomCollector{}: no metric yet (<<>> is nil, <<m>> holds m)
NewCollector == [metric |-> <<>>]

\* h, ok := c.histograms[key]
CollectorCached(cache, key) == key \in DOMAIN cache

\* c.histograms[key] = h
CollectorInsert(st, key) == [st EXCEPT !.histograms = Put(@, key, NewCollector)]

\* the sample is assigned whether or not err is nil
UpdateSampleIgnoringErr(st, key, metric) ==
    LET ps == Percentiles(metric, buckets)
        bucketVals == {<<buckets[i], Trunc(ps[i])>> : i \in 1..Len(buckets)}
        constHistogram == NewConstHistogram(key, Len(metric), F(SumSeq(metric)), bucketVals)
    IN  [st EXCEPT !.descNames = @ \cup {key},
                   !.histograms[key] = [metric |-> <<constHistogram.metric>>]]

\* the rest of outputPrometheusHistogram: the sample is built from the
\* snapshot and, if err is nil, assigned to the collector (h.metric = ...)
UpdateSample(st, key, metric) ==
    LET ps == Percentiles(metric, buckets)
        bucketVals == {<<buckets[i], Trunc(ps[i])>> : i \in 1..Len(buckets)}
        constHistogram == NewConstHistogram(key, Len(metric), F(SumSeq(metric)), bucketVals)
        described == [st EXCEPT !.descNames = @ \cup {key}]
    IN  IF ~constHistogram.err
        THEN [described EXCEPT !.histograms[key] = [metric |-> <<constHistogram.metric>>]]
        ELSE described

\* metric is the histogram's snapshot: its samples
outputPrometheusHistogram(st, name, metric) ==
    LET key == CompositeKey(name)
    IN  IF CollectorCached(st.histograms, key)
        THEN UpdateSample(st, key, metric)
        ELSE LET registered == MustRegisterCollector(st)
             IN  IF registered.panicked
                 THEN registered
                 ELSE UpdateSample(CollectorInsert(registered, key), key, metric)

(***************************************************************************)
(* UpdatePrometheusMetricsOnce: the publishes of one instrument, in the    *)
(* order of the code, and the flush as their run in the order in which     *)
(* Registry.Each hands over the instruments.  A publish is a record        *)
(* [src, op, name, val, metric]: op "gauge" is gaugeFromNameAndValue(name, *)
(* val), op "histogram" is outputPrometheusHistogram(name, metric).        *)
(***************************************************************************)
GaugePub(src, name, val) ==
    [src |-> src, op |-> "gauge", name |-> name, val |-> val, metric |-> <<>>]

HistogramPub(src, name, metric) ==
    [src |-> src, op |-> "histogram", name |-> name, val |-> 0, metric |-> metric]

Mean == <<"m", "e", "a", "n">>
Min == <<"m", "i", "n">>
Max == <<"m", "a", "x">>
P95 == <<"p", "9", "5">>
P99 == <<"p", "9", "9">>
P999 == <<"p", "9", "9", "9">>

\* case metrics.Meter
MeterPubs(name, s) ==
    << GaugePub(name, name, s.rate1),
       GaugePub(name, Derived(name, Mean), s.rateMean) >>

\* case metrics.Timer, with a distribution publish after the first gauge
TimerPubsWithDistribution(name, s) ==
    LET ps == Percentiles(s.vals, <<950, 990, 999>>)
    IN  << GaugePub(name, name, s.rate1),
           HistogramPub(name, name, s.vals),
           GaugePub(name, Derived(name, Mean), SampleMean(s.vals)),
           GaugePub(name, Derived(name, Min), F(SampleMin(s.vals))),
           GaugePub(name, Derived(name, Max), F(SampleMax(s.vals))),
           GaugePub(name, Derived(name, P95), F(Trunc(ps[1]))),
           GaugePub(name, Derived(name, P99), F(Trunc(ps[2]))),
           GaugePub(name, Derived(name, P999), F(Trunc(ps[3]))) >>

\* case metrics.Timer
TimerPubs(name, s) ==
    LET ps == Percentiles(s.vals, <<950, 990, 999>>)
    IN  << GaugePub(name, name, s.rate1),
           GaugePub(name, Derived(name, Mean), SampleMean(s.vals)),
           GaugePub(name, Derived(name, Min), F(SampleMin(s.vals))),
           GaugePub(name, Derived(name, Max), F(SampleMax(s.vals))),
           GaugePub(name, Derived(name, P95), F(Trunc(ps[1]))),
           GaugePub(name, Derived(name, P99), F(Trunc(ps[2]))),
           GaugePub(name, Derived(name, P999), F(Trunc(ps[3]))) >>

\* the type switch with a default case that publishes a gauge
PubsWithDefault(name, i) ==
    CASE i.kind = "Counter" -> << GaugePub(name, name, F(i.count)) >>
      [] i.kind = "Gauge" -> << GaugePub(name, name, F(i.value)) >>
      [] i.kind = "GaugeFloat64" -> << GaugePub(name, name, i.value) >>
      [] i.kind = "Histogram" -> << HistogramPub(name, name, i.vals) >>
      [] i.kind = "Meter" -> MeterPubs(name, i)
      [] i.kind = "Timer" -> TimerPubs(name, i)
      [] OTHER -> << GaugePub(name, name, 0) >>

\* the type switch of UpdatePrometheusMetricsOnce
Pubs(name, i) ==
    CASE i.kind = "Counter" -> << GaugePub(name, name, F(i.count)) >>
      [] i.kind = "Gauge" -> << GaugePub(name, name, F(i.value)) >>
      [] i.kind = "GaugeFloat64" -> << GaugePub(name, name, i.value) >>
      [] i.kind = "Histogram" -> << HistogramPub(name, name, i.vals) >>
      [] i.kind = "Meter" -> MeterPubs(name, i)
      [] i.kind = "Timer" -> TimerPubs(name, i)
      [] OTHER -> << >>

RECURSIVE AllPubs(_, _)
AllPubs(registry, order) ==
    IF order = <<>> THEN <<>>
    ELSE Pubs(Head(order), registry[Head(order)]) \o AllPubs(registry, Tail(order))

\* the orders in which Registry.Each may hand over the instruments
Orders(S) ==
    {o \in [1..Cardinality(S) -> S] : \A i, j \in 1..Cardinality(S) : o[i] = o[j] => i = j}

Publish(st, pub) ==
    IF pub.op = "gauge"
    THEN gaugeFromNameAndValue(st, pub.name, pub.val)
    ELSE outputPrometheusHistogram(st, pub.name, pub.metric)

\* the publishes run one after the other until one panics; st.calls is the
\* record of the publishes begun
\* the publish is done: an instrument whose own gauge was set is noted
Done(st, pub) ==
    IF ~st.panicked /\ pub.op = "gauge" /\ pub.name = pub.src
    THEN [st EXCEPT !.exported = @ \cup {pub.src}]
    ELSE st

RECURSIVE RunPubs(_, _)
RunPubs(st, pubs) ==
    IF pubs = <<>> \/ st.panicked THEN st
    ELSE RunPubs(Done(Publish([st EXCEPT !.calls = Append(@, Head(pubs))], Head(pubs)),
                      Head(pubs)),
                 Tail(pubs))

\* the exporter's fields as the record the operations work on
Exporter ==
    [promRegistry |-> promRegistry, gauges |-> gauges, histograms |-> histograms,
     gaugeValue |-> gaugeValue, regCalls |-> regCalls, descNames |-> descNames,
     exported |-> exported,
     panicked |-> FALSE, calls |-> <<>>]

\* a flush that hands the err of NewConstHistogram on to its caller
ReturnedErr(st) ==
    IF st.panicked THEN "panic"
    ELSE IF \E c \in {st.calls[i] : i \in 1..Len(st.calls)} :
               c.op = "histogram" /\ ~IsValidMetricName(CompositeKey(c.name))
         THEN "error"
         ELSE "nil"

\* what the caller of a flush gets: nil, or the panic of MustRegister
Returned(st) == IF st.panicked THEN "panic" ELSE "nil"

Store(st) ==
    /\ promRegistry' = st.promRegistry
    /\ gauges' = st.gauges
    /\ histograms' = st.histograms
    /\ gaugeValue' = st.gaugeValue
    /\ regCalls' = st.regCalls
    /\ descNames' = st.descNames
    /\ exported' = st.exported

\* a flush that clears the counters it has read
UpdatePrometheusMetricsOnceClearing ==
    /\ \E order \in Orders(DOMAIN Registry) :
          \E st \in {RunPubs(Exporter, AllPubs(Registry, order))} :
              /\ Store(st)
              /\ ret' = Returned(st)
              /\ last' = [op |-> "flush", calls |-> st.calls]
    /\ Registry' = [name \in DOMAIN Registry |->
                       IF Registry[name].kind = "Counter"
                       THEN [Registry[name] EXCEPT !.count = 0]
                       ELSE Registry[name]]
    /\ UNCHANGED <<namespace, subsystem, instruments, loopVars, concVars, flattenVars, tickerVars>>

UpdatePrometheusMetricsOnce ==
    /\ \E order \in Orders(DOMAIN Registry) :
          \E st \in {RunPubs(Exporter, AllPubs(Registry, order))} :
              /\ Store(st)
              /\ ret' = Returned(st)
              /\ last' = [op |-> "flush", calls |-> st.calls]
    /\ UNCHANGED <<namespace, subsystem, Registry, instruments, loopVars, concVars, flattenVars, tickerVars>>

(***************************************************************************)
(* The application: what it does to the source registry.                   *)
(***************************************************************************)
App == <<namespace, subsystem, exporterVars, loopVars, concVars, flattenVars, tickerVars>>

Touched == [op |-> "app", calls |-> <<>>]

\* Registry.Register(name, instrument)
Register(name, kind) ==
    /\ <<name, kind>> \in instruments
    /\ name \notin DOMAIN Registry
    /\ Registry' = Put(Registry, name, NewInstrument(kind))
    /\ UNCHANGED instruments
    /\ last' = Touched
    /\ UNCHANGED App

\* Registry.Unregister(name)
Unregister(name) ==
    /\ name \in DOMAIN Registry
    /\ Registry' = Drop(Registry, name)
    /\ last' = Touched
    /\ UNCHANGED <<App, instruments>>

\* Counter.Inc(d)
Inc(name, d) ==
    /\ name \in DOMAIN Registry
    /\ Registry[name].kind = "Counter"
    /\ Registry[name].count + d <= MaxCount
    /\ Registry' = [Registry EXCEPT ![name].count = @ + d]
    /\ last' = Touched
    /\ UNCHANGED <<App, instruments>>

\* Gauge.Update(v)
Update(name, v) ==
    /\ name \in DOMAIN Registry
    /\ Registry[name].kind = "Gauge"
    /\ Registry' = [Registry EXCEPT ![name].value = v]
    /\ last' = Touched
    /\ UNCHANGED <<App, instruments>>

\* GaugeFloat64.Update(v)
UpdateFloat64(name, v) ==
    /\ name \in DOMAIN Registry
    /\ Registry[name].kind = "GaugeFloat64"
    /\ Registry' = [Registry EXCEPT ![name].value = v]
    /\ last' = Touched
    /\ UNCHANGED <<App, instruments>>

\* Meter.Mark(n), and the passing of time: the rates move
Mark(name, r1, rm) ==
    /\ name \in DOMAIN Registry
    /\ Registry[name].kind = "Meter"
    /\ Registry' = [Registry EXCEPT ![name].rate1 = r1, ![name].rateMean = rm]
    /\ last' = Touched
    /\ UNCHANGED <<App, instruments>>

\* Histogram.Update(v)
HistogramUpdate(name, v) ==
    /\ name \in DOMAIN Registry
    /\ Registry[name].kind = "Histogram"
    /\ Len(Registry[name].vals) < MaxSamples
    /\ Registry' = [Registry EXCEPT ![name].vals = InsertSorted(@, v)]
    /\ last' = Touched
    /\ UNCHANGED <<App, instruments>>

\* Timer.Update(d), Timer.Time(f): a sample, and the rate moves
TimerUpdate(name, v, r1) ==
    /\ name \in DOMAIN Registry
    /\ Registry[name].kind = "Timer"
    /\ Len(Registry[name].vals) < MaxSamples
    /\ Registry' = [Registry EXCEPT ![name].vals = InsertSorted(@, v), ![name].rate1 = r1]
    /\ last' = Touched
    /\ UNCHANGED <<App, instruments>>

(***************************************************************************)
(* The exporter as constructed by NewPrometheusProvider, and flushes       *)
(* called one at a time.                                                   *)
(***************************************************************************)
NewPrometheusProvider ==
    /\ namespace = <<"n">>
    /\ subsystem = <<"s">>
    /\ Registry = <<>>
    /\ promRegistry = {}
    /\ gauges = <<>>
    /\ histograms = <<>>
    /\ gaugeValue = <<>>
    /\ regCalls = <<>>
    /\ descNames = {}
    /\ exported = {}
    /\ ret = "none"
    /\ last = [op |-> "init", calls |-> <<>>]

Init ==
    /\ NewPrometheusProvider
    /\ instruments \in Applications
    /\ loop = "idle"
    /\ tickPending = FALSE
    /\ ticks = 0
    /\ flushes = 0
    /\ pc = <<>>
    /\ todo = <<>>
    /\ cur = <<>>
    /\ useLock = FALSE
    /\ lock = "none"
    /\ fkIn = <<>>
    /\ fkOut = <<>>

Next ==
    \/ \E name \in Names, kind \in Kinds : Register(name, kind)
    \/ \E name \in Names : Unregister(name)
    \/ \E name \in Names, d \in IncAmounts : Inc(name, d)
    \/ \E name \in Names, v \in GaugeVals : Update(name, v)
    \/ \E name \in Names, v \in FloatVals : UpdateFloat64(name, v)
    \/ \E name \in Names, r1 \in Rates, rm \in Rates : Mark(name, r1, rm)
    \/ \E name \in Names, v \in SampleVals : HistogramUpdate(name, v)
    \/ \E name \in Names, v \in SampleVals, r1 \in Rates : TimerUpdate(name, v, r1)
    \/ UpdatePrometheusMetricsOnce

Spec == Init /\ [][Next]_vars

(***************************************************************************)
(* UpdatePrometheusMetrics: the loop over time.Tick(c.FlushInterval).  The *)
(* channel of time.Tick holds one tick; a tick that finds it full is       *)
(* dropped.  A panic in the loop's goroutine ends the process.             *)
(***************************************************************************)
\* go pClient.UpdatePrometheusMetrics()
StartLoop ==
    /\ loop = "idle"
    /\ loop' = "running"
    /\ UNCHANGED <<namespace, subsystem, Registry, exporterVars, last, instruments,
                   tickPending, concVars, flattenVars, tickerVars>>

\* the ticker fires
Tick ==
    /\ loop = "running"
    /\ tickPending' = TRUE
    /\ UNCHANGED <<namespace, subsystem, Registry, exporterVars, last, instruments,
                   loop, concVars, flattenVars, tickerVars>>

\* one round of the loop: a tick is received and the flush is made
UpdatePrometheusMetrics ==
    /\ loop = "running"
    /\ tickPending
    /\ tickPending' = FALSE
    /\ \E order \in Orders(DOMAIN Registry) :
          \E st \in {RunPubs(Exporter, AllPubs(Registry, order))} :
              /\ Store(st)
              /\ ret' = Returned(st)
              /\ last' = [op |-> "flush", calls |-> st.calls]
              /\ loop' = IF st.panicked THEN "crashed" ELSE "running"
    /\ UNCHANGED <<namespace, subsystem, Registry, instruments, concVars, flattenVars, tickerVars>>

\* what the application does to its instruments
Application ==
    \/ \E name \in Names, kind \in Kinds : Register(name, kind)
    \/ \E name \in Names : Unregister(name)
    \/ \E name \in Names, d \in IncAmounts : Inc(name, d)
    \/ \E name \in Names, v \in GaugeVals : Update(name, v)
    \/ \E name \in Names, v \in FloatVals : UpdateFloat64(name, v)
    \/ \E name \in Names, r1 \in Rates, rm \in Rates : Mark(name, r1, rm)
    \/ \E name \in Names, v \in SampleVals : HistogramUpdate(name, v)
    \/ \E name \in Names, v \in SampleVals, r1 \in Rates : TimerUpdate(name, v, r1)

\* the process lives until the loop's goroutine panics
NextLoop ==
    /\ loop # "crashed"
    /\ \/ Application
       \/ StartLoop
       \/ Tick
       \/ UpdatePrometheusMetrics

\* WF_vars(UpdatePrometheusMetrics), with ENABLED <<UpdatePrometheusMetrics>>_vars
\* written out: a round is possible exactly when the loop runs and a tick waits
LoopScheduled ==
    \/ []<>(~(loop = "running" /\ tickPending))
    \/ []<><<UpdatePrometheusMetrics>>_vars

\* the ticker keeps firing and the loop's goroutine keeps being scheduled
SpecLoop ==
    /\ Init
    /\ [][NextLoop]_vars
    /\ WF_vars(Tick)
    /\ LoopScheduled

(***************************************************************************)
(* The loop watched by rounds: the receive of a tick from the channel of   *)
(* time.Tick and the flush are steps of their own, so that the ticker      *)
(* fires while a flush is under way, and ticks and flushes are counted.    *)
(* loop is "running" while the loop waits for a tick and "flushing" while  *)
(* it is inside UpdatePrometheusMetricsOnce.                               *)
(***************************************************************************)
TickerApplications ==
    { {<<X, "Counter">>},
      {<<ADotB, "Counter">>, <<AUnderB, "Gauge">>} }

InitTicker ==
    /\ NewPrometheusProvider
    /\ instruments \in TickerApplications
    /\ loop = "idle"
    /\ tickPending = FALSE
    /\ ticks = 0
    /\ flushes = 0
    /\ pc = <<>>
    /\ todo = <<>>
    /\ cur = <<>>
    /\ useLock = FALSE
    /\ lock = "none"
    /\ fkIn = <<>>
    /\ fkOut = <<>>

\* the ticker fires: the tick goes into the channel, which holds one tick, or
\* is dropped when the channel is full
TickFires ==
    /\ loop \in {"running", "flushing"}
    /\ ticks < MaxTicks
    /\ ticks' = ticks + 1
    /\ tickPending' = TRUE
    /\ UNCHANGED <<namespace, subsystem, Registry, exporterVars, last, instruments,
                   loop, concVars, flattenVars, flushes>>

\* the loop takes the tick and goes on as if the channel still held it
ReceiveKeepingTick ==
    /\ loop = "running"
    /\ tickPending
    /\ loop' = "flushing"
    /\ flushes' = flushes + 1
    /\ UNCHANGED <<namespace, subsystem, Registry, exporterVars, last, instruments,
                   tickPending, concVars, flattenVars, ticks>>

\* for _ = range time.Tick(...): the loop receives the tick and enters the flush
Receive ==
    /\ loop = "running"
    /\ tickPending
    /\ tickPending' = FALSE
    /\ loop' = "flushing"
    /\ flushes' = flushes + 1
    /\ UNCHANGED <<namespace, subsystem, Registry, exporterVars, last, instruments,
                   concVars, flattenVars, ticks>>

\* c.UpdatePrometheusMetricsOnce() runs and returns to the loop, or panics
FlushReturns ==
    /\ loop = "flushing"
    /\ \E order \in Orders(DOMAIN Registry) :
          \E st \in {RunPubs(Exporter, AllPubs(Registry, order))} :
              /\ Store(st)
              /\ ret' = Returned(st)
              /\ last' = [op |-> "flush", calls |-> st.calls]
              /\ loop' = IF st.panicked THEN "crashed" ELSE "running"
    /\ UNCHANGED <<namespace, subsystem, Registry, instruments, tickPending, concVars,
                   flattenVars, tickerVars>>

NextTicker ==
    /\ loop # "crashed"
    /\ \/ Application
       \/ StartLoop
       \/ TickFires
       \/ Receive
       \/ FlushReturns

SpecTicker == InitTicker /\ [][NextTicker]_vars

(***************************************************************************)
(* Flushes that overlap: the loop's flush and a flush the application      *)
(* calls itself, each going through gaugeFromNameAndValue and              *)
(* outputPrometheusHistogram statement by statement.  With useLock the     *)
(* application holds a mutex of its own around every flush.  The source    *)
(* registry holds the application's instruments and is left alone; its     *)
(* names flatten to different identities, so that the destination rejects  *)
(* a registration only when the same key is registered twice.              *)
(***************************************************************************)
Flushers == {"loop", "manual"}

ConcApplications ==
    { {<<X, "Meter">>, <<XMean, "Counter">>},
      {<<X, "Histogram">>},
      {<<AUnderB, "Gauge">>} }

InitConc ==
    /\ NewPrometheusProvider
    /\ instruments \in ConcApplications
    /\ loop = "running"
    /\ tickPending = FALSE
    /\ ticks = 0
    /\ flushes = 0
    /\ pc = [p \in Flushers |-> "idle"]
    /\ todo = [p \in Flushers |-> <<>>]
    /\ cur = [p \in Flushers |-> <<>>]
    /\ useLock \in BOOLEAN
    /\ lock = "none"
    /\ fkIn = <<>>
    /\ fkOut = <<>>

\* the application registers its instruments
RegisterAll ==
    /\ Registry = <<>>
    /\ Registry' = [name \in {i[1] : i \in instruments} |->
                       NewInstrument((CHOOSE i \in instruments : i[1] = name)[2])]
    /\ UNCHANGED <<namespace, subsystem, exporterVars, last, instruments, loopVars,
                   concVars, flattenVars, tickerVars>>

Quiet == <<namespace, subsystem, Registry, last, instruments, loop, useLock, flattenVars, tickerVars>>

\* the publish flusher p is at, and its composite key
PubOf(p) == Head(todo[p])
KeyOf(p) == CompositeKey(PubOf(p).name)

\* where a flusher goes once a publish is done
After(rest) == IF rest = <<>> THEN "return" ELSE "lookup"

\* a flush begins: UpdatePrometheusMetricsOnce is entered, by the loop on a
\* tick or by the application, and Registry.Each takes the instruments
Begin(p) ==
    /\ Registry # <<>>
    /\ pc[p] = "idle"
    /\ IF p = "loop" THEN tickPending /\ tickPending' = FALSE ELSE UNCHANGED tickPending
    /\ IF useLock THEN lock = "none" /\ lock' = p ELSE UNCHANGED lock
    /\ \E order \in Orders(DOMAIN Registry) :
          /\ todo' = [todo EXCEPT ![p] = AllPubs(Registry, order)]
          /\ pc' = [pc EXCEPT ![p] = After(AllPubs(Registry, order))]
    /\ UNCHANGED <<namespace, subsystem, Registry, exporterVars, last, instruments, loop,
                   cur, useLock, flattenVars, tickerVars>>

\* g, ok := c.gauges[key], and on a miss the handle is built
LookupGauge(p) ==
    /\ pc[p] = "lookup"
    /\ PubOf(p).op = "gauge"
    /\ IF GaugeCached(gauges, KeyOf(p))
       THEN /\ cur' = [cur EXCEPT ![p] = <<gauges[KeyOf(p)]>>]
            /\ pc' = [pc EXCEPT ![p] = "set"]
       ELSE /\ cur' = [cur EXCEPT ![p] = <<NewGauge(PubOf(p).name)>>]
            /\ pc' = [pc EXCEPT ![p] = "register"]
    /\ UNCHANGED <<Quiet, exporterVars, tickPending, todo, lock>>

\* c.promRegistry.MustRegister(g); a panic in the loop's goroutine ends the process
RegisterGauge(p) ==
    /\ pc[p] = "register"
    /\ \E st \in {MustRegisterGauge(Exporter, KeyOf(p), cur[p][1])} :
          /\ Store(st)
          /\ pc' = [pc EXCEPT ![p] = IF st.panicked THEN "panicked" ELSE "insert"]
          /\ ret' = IF st.panicked THEN "panic" ELSE ret
          /\ loop' = IF st.panicked /\ p = "loop" THEN "crashed" ELSE loop
    /\ UNCHANGED <<namespace, subsystem, Registry, last, instruments, tickPending,
                   todo, cur, useLock, lock, flattenVars, tickerVars>>

\* c.gauges[key] = g
InsertGauge(p) ==
    /\ pc[p] = "insert"
    /\ Store(GaugeInsert(Exporter, KeyOf(p), cur[p][1]))
    /\ pc' = [pc EXCEPT ![p] = "set"]
    /\ UNCHANGED <<Quiet, ret, tickPending, todo, cur, lock>>

\* g.Set(val)
SetGauge(p) ==
    /\ pc[p] = "set"
    /\ Store(Done(GaugeSet(Exporter, cur[p][1], PubOf(p).val), PubOf(p)))
    /\ todo' = [todo EXCEPT ![p] = Tail(@)]
    /\ cur' = [cur EXCEPT ![p] = <<>>]
    /\ pc' = [pc EXCEPT ![p] = After(Tail(todo[p]))]
    /\ UNCHANGED <<Quiet, ret, tickPending, lock>>

\* h, ok := c.histograms[key]
LookupCollector(p) ==
    /\ pc[p] = "lookup"
    /\ PubOf(p).op = "histogram"
    /\ pc' = [pc EXCEPT ![p] = IF CollectorCached(histograms, KeyOf(p))
                               THEN "sample" ELSE "registerCollector"]
    /\ UNCHANGED <<Quiet, exporterVars, tickPending, todo, cur, lock>>

\* c.promRegistry.MustRegister(h)
RegisterCollector(p) ==
    /\ pc[p] = "registerCollector"
    /\ \E st \in {MustRegisterCollector(Exporter)} :
          /\ Store(st)
          /\ pc' = [pc EXCEPT ![p] = IF st.panicked THEN "panicked" ELSE "insertCollector"]
          /\ ret' = IF st.panicked THEN "panic" ELSE ret
          /\ loop' = IF st.panicked /\ p = "loop" THEN "crashed" ELSE loop
    /\ UNCHANGED <<namespace, subsystem, Registry, last, instruments, tickPending,
                   todo, cur, useLock, lock, flattenVars, tickerVars>>

\* c.histograms[key] = h
InsertCollector(p) ==
    /\ pc[p] = "insertCollector"
    /\ Store(CollectorInsert(Exporter, KeyOf(p)))
    /\ pc' = [pc EXCEPT ![p] = "sample"]
    /\ UNCHANGED <<Quiet, ret, tickPending, todo, cur, lock>>

\* the snapshot is taken, the sample built and assigned
AssignSample(p) ==
    /\ pc[p] = "sample"
    /\ Store(UpdateSample(Exporter, KeyOf(p), PubOf(p).metric))
    /\ todo' = [todo EXCEPT ![p] = Tail(@)]
    /\ pc' = [pc EXCEPT ![p] = After(Tail(todo[p]))]
    /\ UNCHANGED <<Quiet, ret, tickPending, cur, lock>>

\* return nil, and the application's mutex is released
Return(p) ==
    /\ pc[p] = "return"
    /\ ret' = "nil"
    /\ pc' = [pc EXCEPT ![p] = "idle"]
    /\ lock' = IF lock = p THEN "none" ELSE lock
    /\ UNCHANGED <<Quiet, promRegistry, gauges, histograms, gaugeValue, regCalls, descNames,
                   exported, tickPending, todo, cur>>

NextConc ==
    /\ loop # "crashed"
    /\ \/ RegisterAll
       \/ Tick
       \/ \E p \in Flushers :
             \/ Begin(p)
             \/ LookupGauge(p)
             \/ RegisterGauge(p)
             \/ InsertGauge(p)
             \/ SetGauge(p)
             \/ LookupCollector(p)
             \/ RegisterCollector(p)
             \/ InsertCollector(p)
             \/ AssignSample(p)
             \/ Return(p)

SpecConc == InitConc /\ [][NextConc]_vars

(***************************************************************************)
(* The destination registry shared: someone else registers gauges with it  *)
(* too (another exporter, or the application itself, as the tests do).     *)
(***************************************************************************)
\* prometheusRegistry.Register(prometheus.NewGauge(...)), accepted
RegisterElsewhere(name) ==
    /\ Accepts(promRegistry, {NewGauge(name).fqName})
    /\ promRegistry' = promRegistry \cup {NewGauge(name).fqName}
    /\ last' = Touched
    /\ UNCHANGED <<namespace, subsystem, Registry, gauges, histograms, gaugeValue, ret,
                   regCalls, descNames, exported, instruments, loopVars, concVars, flattenVars, tickerVars>>

\* the names under which someone else registers a gauge
ElsewhereNames == {X, AUnderB}

NextShared ==
    \/ Next
    \/ \E name \in ElsewhereNames : RegisterElsewhere(name)

SpecShared == Init /\ [][NextShared]_vars

(***************************************************************************)
(* What the claims speak of.                                               *)
(***************************************************************************)
\* the last step was a flush, and the source registry is as that flush read it
Flushed == last.op = "flush"

\* the flush returned to its caller
FlushReturned == Flushed /\ ret = "nil"

HasGauge(name) == CompositeKey(name) \in DOMAIN gauges

\* the value of the destination gauge published under name
GaugeOf(name) == gaugeValue[gauges[CompositeKey(name)]]

KindIn(name, kinds) == name \in DOMAIN Registry /\ Registry[name].kind \in kinds

\* the publishes the last flush began on account of instrument name
CallsOf(name) == SelectSeq(last.calls, LAMBDA c : c.src = name)

\* the last publish the last flush began
LastCall == last.calls[Len(last.calls)]

\* the value a Counter, Gauge or GaugeFloat64 has
ScalarOf(i) == IF i.kind = "Counter" THEN F(i.count)
               ELSE IF i.kind = "Gauge" THEN F(i.value) ELSE i.value

\* C1: every composite key for which a gauge registration was made has had
\* exactly one registration, and its handle is in the gauge cache (so that
\* every later publish is a cache hit).
C1_OneRegistrationPerKey ==
    \A key \in DOMAIN regCalls : regCalls[key] = 1 /\ key \in DOMAIN gauges

\* C2: right after a flush that returned, the destination gauge of every
\* Counter, Gauge and GaugeFloat64 of the source registry holds the value
\* the instrument has.
C2_LastWriteWins ==
    FlushReturned =>
        \A name \in DOMAIN Registry :
            Registry[name].kind \in {"Counter", "Gauge", "GaugeFloat64"} =>
                HasGauge(name) /\ GaugeOf(name) = ScalarOf(Registry[name])

\* the last flush ended in a gauge registration the destination rejected
GaugeRegistrationRejected ==
    Flushed /\ ret = "panic" /\ LastCall.op = "gauge"

\* C3: the keys of the gauge cache and the gauge identities registered at the
\* destination correspond one to one, and no flush attempts a gauge
\* registration that the destination rejects.
C3_CacheRegistryLockstep ==
    /\ \A k1, k2 \in DOMAIN gauges : gauges[k1].fqName = gauges[k2].fqName => k1 = k2
    /\ {gauges[k].fqName : k \in DOMAIN gauges} = promRegistry \ Describe
    /\ ~GaugeRegistrationRejected

\* the seven series of a Timer: the name of each and the value it is to hold
TimerSeries(name, t) ==
    << <<name, t.rate1>>,
       <<Derived(name, Mean), SampleMean(t.vals)>>,
       <<Derived(name, Min), F(SampleMin(t.vals))>>,
       <<Derived(name, Max), F(SampleMax(t.vals))>>,
       <<Derived(name, P95), F(Trunc(Percentile(t.vals, 950)))>>,
       <<Derived(name, P99), F(Trunc(Percentile(t.vals, 990)))>>,
       <<Derived(name, P999), F(Trunc(Percentile(t.vals, 999)))>> >>

\* the instrument whose publish under name was the last one of the last flush
LastPublisher(name) ==
    LET at == {i \in 1..Len(last.calls) : last.calls[i].op = "gauge" /\ last.calls[i].name = name}
    IN  last.calls[CHOOSE i \in at : \A j \in at : j <= i].src

C6_MeterTwoGauges ==
    FlushReturned =>
        \A name \in DOMAIN Registry :
            Registry[name].kind = "Meter" =>
                /\ Len(CallsOf(name)) = 2
                /\ HasGauge(name) /\ GaugeOf(name) = Registry[name].rate1
                /\ HasGauge(Derived(name, Mean))
                /\ GaugeOf(Derived(name, Mean)) = Registry[name].rateMean

\* C10: right after a flush that returned, the sample exported for a
\* Histogram has a field for each of the quantiles 0.95, 0.99 and 0.999, equal
\* to that quantile of the histogram's samples, rounded down to a whole number.
C10_HistogramQuantiles ==
    FlushReturned =>
        \A name \in DOMAIN Registry :
            Registry[name].kind = "Histogram" =>
                /\ CompositeKey(name) \in DOMAIN histograms
                /\ histograms[CompositeKey(name)].metric # <<>>
                /\ \A q \in {950, 990, 999} :
                      <<q, Trunc(Percentile(Registry[name].vals, q))>>
                          \in histograms[CompositeKey(name)].metric[1].buckets

\* the publish was cut short by MustRegister: its key is in no cache
Rejected(c) ==
    IF c.op = "gauge" THEN CompositeKey(c.name) \notin DOMAIN gauges
    ELSE CompositeKey(c.name) \notin DOMAIN histograms

\* the sample of the publish could not be built: its key is no valid metric name
Malformed(c) == c.op = "histogram" /\ ~IsValidMetricName(CompositeKey(c.name))

RECURSIVE CountPubs(_)
CountPubs(names) ==
    IF names = {} THEN 0
    ELSE LET name == CHOOSE n \in names : TRUE
         IN  Len(Pubs(name, Registry[name])) + CountPubs(names \ {name})

\* C7 as claimed: every flush returns nil to its caller.
C7_AlwaysReturnsNil == Flushed => ret = "nil"

\* C7 as amended: a flush returns nil whenever it returns, also when a sample
\* could not be built, and then it has made every publish of every
\* instrument; when the destination rejects a registration the flush does
\* not return: MustRegister panics, the panic reaches the caller, and the
\* rejected publish is the last one made.
C7_NilUnlessRegistrationRejected ==
    Flushed =>
        /\ ret \in {"nil", "panic"}
        /\ ret = "panic" <=> (last.calls # <<>> /\ Rejected(LastCall))
        /\ ret = "nil" => Len(last.calls) = CountPubs(DOMAIN Registry)

C7_Witness ==
    /\ FlushReturned
    /\ \E i \in 1..Len(last.calls) :
          /\ Malformed(last.calls[i])
          /\ histograms[CompositeKey(last.calls[i].name)].metric = <<>>

\* the destination series of the instrument under name is registered
SeriesRegistered(name) ==
    IF Registry[name].kind = "Histogram"
    THEN CompositeKey(name) \in DOMAIN histograms
    ELSE HasGauge(name)

Published == {"Counter", "Gauge", "GaugeFloat64", "Histogram", "Meter", "Timer"}
Scalars == {"Counter", "Gauge", "GaugeFloat64"}

AllRegistered ==
    \A name \in DOMAIN Registry :
        Registry[name].kind \in Published => SeriesRegistered(name)

AllScalarsShown ==
    \A name \in DOMAIN Registry :
        Registry[name].kind \in Scalars =>
            HasGauge(name) /\ GaugeOf(name) = ScalarOf(Registry[name])

\* C8: the loop, once started, never ends; with ticks arriving, again and
\* again every instrument of the source registry has its series registered;
\* and once the application leaves the instruments alone, the gauge of every
\* Counter, Gauge and GaugeFloat64 eventually holds the instrument's value
\* and keeps it.
C8_PeriodicLoopLiveness ==
    /\ [](loop # "crashed")
    /\ <>[](loop = "running") => []<>AllRegistered
    /\ <>[](loop = "running" /\ Flushed) => <>[]AllScalarsShown

\* flusher p has seen a cache miss for key and has not yet put a handle in
Missed(p, key) ==
    /\ pc[p] \in {"register", "insert", "panicked"}
    /\ PubOf(p).op = "gauge"
    /\ KeyOf(p) = key

\* C9: when the application serializes the flushes, no two flushers hold a
\* cache miss for the same composite key and MustRegister is called at most
\* once for a key; without that a state is reachable in which both have
\* missed and the second registration is rejected (C9_Witness).
C9_SerializedFlushesRegisterOnce ==
    useLock =>
        /\ \A key \in DOMAIN regCalls : regCalls[key] <= 1
        /\ \A p, q \in Flushers : \A key \in DOMAIN regCalls :
              Missed(p, key) /\ Missed(q, key) => p = q

C9_Witness ==
    /\ ~useLock
    /\ \E p, q \in Flushers :
          /\ p # q
          /\ pc[p] = "panicked"
          /\ PubOf(p).op = "gauge"
          /\ KeyOf(p) \in DOMAIN regCalls
          /\ regCalls[KeyOf(p)] = 2
          /\ Missed(q, KeyOf(p))
          /\ pc[q] = "insert"

\* the last flush ended in a collector registration the destination rejected
CollectorRegistrationRejected ==
    Flushed /\ ret = "panic" /\ LastCall.op = "histogram"

\* the Histograms of the source registry
HistogramNames == {name \in DOMAIN Registry : Registry[name].kind = "Histogram"}

\* C11: no flush ends in a rejected collector registration, and right after
\* a flush every Histogram of the source registry has a collector of its own
\* in the histogram cache, registered at the destination.
C11_OneCollectorPerKey ==
    Flushed =>
        /\ ~CollectorRegistrationRejected
        /\ ret = "nil" =>
              /\ \A name \in HistogramNames : CompositeKey(name) \in DOMAIN histograms
              /\ Cardinality(DOMAIN histograms) >= Cardinality(HistogramNames)

\* the identity built from the separately flattened namespace, subsystem and name
FlattenedIdentity(name) ==
    BuildFQName(flattenKey(namespace), flattenKey(subsystem), flattenKey(name))

\* C12: every name the exporter hands to the destination, the fqName of a
\* gauge and the name of a sample's descriptor alike, is the identity built
\* from the flattened namespace, subsystem and name of a series.
C12_OnlyFlattenedNamesHandedOver ==
    /\ \A key \in DOMAIN gauges : gauges[key].fqName = FlattenedIdentity(gauges[key].help)
    /\ \A d \in descNames : \E name \in Names : d = FlattenedIdentity(name)

\* the sample a distribution publish is to build: count, sum and, for each
\* quantile of buckets, that quantile of the samples as a whole number
SampleOf(c) ==
    [desc |-> CompositeKey(c.name),
     count |-> Len(c.metric),
     sum |-> F(SumSeq(c.metric)),
     buckets |-> {<<buckets[i], Trunc(Percentile(c.metric, buckets[i]))>> : i \in 1..Len(buckets)}]

\* C13: in every flush, a distribution publish that got past the registration
\* and whose sample could not be built leaves the collector as it was before
\* the flush (as constructed, if the flush made it), cached and registered,
\* and does not end the flush: no error is returned and every publish of
\* every instrument is made unless a registration is rejected; a publish
\* whose sample could be built leaves that sample, whole, in the collector.
C13_MalformedSampleDropped ==
    [][last'.op = "flush" =>
          /\ \A i \in 1..Len(last'.calls) :
                LET c == last'.calls[i]
                    key == CompositeKey(c.name)
                IN  c.op = "histogram" /\ key \in DOMAIN histograms' =>
                        IF Malformed(c)
                        THEN /\ histograms'[key] = IF key \in DOMAIN histograms
                                                   THEN histograms[key] ELSE NewCollector
                             /\ Describe \subseteq promRegistry'
                             /\ ret' \in {"nil", "panic"}
                             /\ ret' = "panic" => i < Len(last'.calls)
                        ELSE histograms'[key].metric = <<SampleOf(c)>>
          /\ ret' = "nil" => Len(last'.calls) = CountPubs(DOMAIN Registry)
      ]_vars

C13_Witness ==
    /\ FlushReturned
    /\ KindIn(ADotB, {"Histogram"})
    /\ Registry[ADotB].vals = <<1, 4>>
    /\ Len(last.calls) = 2
    /\ last.calls[1].name = ADotB
    /\ histograms[CompositeKey(ADotB)].metric = <<>>
    /\ HasGauge(AUnderB)
    /\ GaugeOf(AUnderB) = 2500

\* before the flush, the series of publish c is in no cache and the
\* destination already holds the identity it is to be registered under
BoundToBeRejected(c) ==
    IF c.op = "gauge"
    THEN CompositeKey(c.name) \notin DOMAIN gauges /\ NewGauge(c.name).fqName \in promRegistry
    ELSE CompositeKey(c.name) \notin DOMAIN histograms /\ Describe \cap promRegistry # {}

\* C14: in every flush, a publish whose registration the destination is bound
\* to reject is the last publish of the flush, the flush does not return, and
\* the rejected handle is not in the cache and holds no value; and whenever
\* a flush ends in a rejected registration, every cache entry there was
\* before the flush is still there with the same handle.
C14_DuplicateRegistrationFatal ==
    [][last'.op = "flush" =>
          /\ \A i \in 1..Len(last'.calls) :
                LET c == last'.calls[i]
                    key == CompositeKey(c.name)
                IN  BoundToBeRejected(c) =>
                        /\ ret' = "panic"
                        /\ i = Len(last'.calls)
                        /\ key \notin DOMAIN gauges' \cup DOMAIN histograms'
                        /\ c.op = "gauge" => NewGauge(c.name) \notin DOMAIN gaugeValue'
          /\ ret' = "panic" =>
                /\ \A key \in DOMAIN gauges :
                      key \in DOMAIN gauges' /\ gauges'[key] = gauges[key]
                /\ DOMAIN histograms \subseteq DOMAIN histograms'
      ]_vars

C14_Witness ==
    /\ Flushed
    /\ ret = "panic"
    /\ LastCall.op = "gauge"
    /\ LastCall.name = X
    /\ regCalls[CompositeKey(X)] = 2
    /\ ~HasGauge(X)
    /\ NewGauge(X) \notin DOMAIN gaugeValue
    /\ HasGauge(XMean)
    /\ GaugeOf(XMean) = 2000

\* C15: no step removes a key from the gauge cache or the histogram cache,
\* changes the handle under a key, or removes a registration from the
\* destination; and the gauge of an instrument that a flush has published
\* and that is no longer in the source registry keeps its value in every step.
C15_ExportedEntriesNeverRemoved ==
    [][/\ \A key \in DOMAIN gauges :
             key \in DOMAIN gauges' /\ gauges'[key] = gauges[key]
       /\ DOMAIN histograms \subseteq DOMAIN histograms'
       /\ promRegistry \subseteq promRegistry'
       /\ \A name \in exported \ DOMAIN Registry :
             gaugeValue'[gauges[CompositeKey(name)]] = gaugeValue[gauges[CompositeKey(name)]]
      ]_vars

\* C16: in every flush, for an entry of the source registry whose kind is
\* none of the six published kinds, no publish is made, its key is in the
\* gauge cache and in the histogram cache after the flush exactly if it was
\* before, and so is its identity at the destination; the flush returns no
\* error, and when it returns it has made every publish of every other entry.
C16_UnknownKindsSkipped ==
    [][last'.op = "flush" =>
          \A name \in DOMAIN Registry :
              Registry[name].kind \notin Published =>
                  /\ \A i \in 1..Len(last'.calls) : last'.calls[i].src # name
                  /\ CompositeKey(name) \in DOMAIN gauges' <=> CompositeKey(name) \in DOMAIN gauges
                  /\ CompositeKey(name) \in DOMAIN histograms'
                         <=> CompositeKey(name) \in DOMAIN histograms
                  /\ NewGauge(name).fqName \in promRegistry'
                         <=> NewGauge(name).fqName \in promRegistry
                  /\ ret' \in {"nil", "panic"}
                  /\ ret' = "nil" =>
                         \A other \in DOMAIN Registry \ {name} :
                             Len(SelectSeq(last'.calls, LAMBDA c : c.src = other))
                                 = Len(Pubs(other, Registry[other]))
      ]_vars

C16_Witness ==
    /\ FlushReturned
    /\ KindIn(X, {"Healthcheck"})
    /\ KindIn(ADotB, {"Counter"})
    /\ Len(last.calls) = 1
    /\ ~HasGauge(X)
    /\ CompositeKey(X) \notin DOMAIN histograms
    /\ HasGauge(ADotB)
    /\ GaugeOf(ADotB) = 2000

\* C17: no step changes the exporter's namespace or subsystem, a flush
\* leaves the source registry, its entries and their values, as it found
\* them, and the source registry changes only in steps of the application.
C17_ExporterOnlyReads ==
    [][/\ namespace' = namespace
       /\ subsystem' = subsystem
       /\ last'.op = "flush" => Registry' = Registry
       /\ Registry' # Registry => last'.op = "app"
      ]_vars

C17_Witness ==
    /\ FlushReturned
    /\ namespace = <<"n">>
    /\ subsystem = <<"s">>
    /\ KindIn(XMean, {"Counter"})
    /\ Registry[XMean].count = 3
    /\ KindIn(X, {"Meter"})
    /\ Registry[X].rate1 = 500
    /\ HasGauge(X)
    /\ GaugeOf(X) = 500

\* the ticks taken from the ticker: those that led to a flush and the one
\* that waits in the channel
Delivered == flushes + (IF tickPending THEN 1 ELSE 0)

\* C18: a flush of the loop begins only while the loop is waiting, that is
\* after the previous flush has returned, and it takes the one tick that
\* waits; the flushes begun and the tick that waits together never exceed
\* the ticks that have fired, so that of the ticks fired during a flush at
\* most one leads to a further flush.
C18_LoopNeverOverlapsOrDoubleFires ==
    [][/\ flushes' # flushes =>
             /\ loop = "running"
             /\ loop' = "flushing"
             /\ tickPending
             /\ flushes' = flushes + 1
       /\ flushes' + (IF tickPending' THEN 1 ELSE 0) <= ticks'
       /\ loop' = "flushing" /\ loop # "flushing" => flushes' = flushes + 1
      ]_vars

C18_Witness ==
    /\ loop = "flushing"
    /\ flushes = 1
    /\ ticks = 3
    /\ tickPending
    /\ Delivered = 2

\* C19: right after a flush that returned, no two instruments have published
\* under one gauge name, and the values the gauges hold are the ones a flush
\* over the same source registry leaves in whatever order the instruments
\* are handed over.
C19_OneSourcePerGauge ==
    FlushReturned =>
        /\ \A i, j \in 1..Len(last.calls) :
              /\ last.calls[i].op = "gauge"
              /\ last.calls[j].op = "gauge"
              /\ last.calls[i].name = last.calls[j].name
              => last.calls[i].src = last.calls[j].src
        /\ \A order \in Orders(DOMAIN Registry) :
              RunPubs(Exporter, AllPubs(Registry, order)).gaugeValue = gaugeValue

\* C20: every collector in the histogram cache holds a sample.
C20_CollectorAlwaysHoldsSample ==
    \A key \in DOMAIN histograms : histograms[key].metric # <<>>

(***************************************************************************)
(* flattenKey on its own: an argument is chosen, flattenKey is applied to  *)
(* it, and then to its own result.                                         *)
(***************************************************************************)
InitFlatten ==
    /\ NewPrometheusProvider
    /\ instruments = {}
    /\ loop = "idle"
    /\ tickPending = FALSE
    /\ ticks = 0
    /\ flushes = 0
    /\ pc = <<>>
    /\ todo = <<>>
    /\ cur = <<>>
    /\ useLock = FALSE
    /\ lock = "none"
    /\ fkIn \in StringsUpTo(MaxLen)
    /\ fkOut = <<>>

ApplyFlattenKey ==
    /\ Len(fkOut) < 2
    /\ fkOut' = Append(fkOut, flattenKey(IF fkOut = <<>> THEN fkIn ELSE fkOut[Len(fkOut)]))
    /\ UNCHANGED <<namespace, subsystem, Registry, exporterVars, last, instruments,
                   loopVars, concVars, fkIn, tickerVars>>

NextFlatten == ApplyFlattenKey

SpecFlatten == InitFlatten /\ [][NextFlatten]_vars

Flattened == {" ", ".", "-", "="}

\* C4: flattenKey keeps the length of its argument, leaves none of ' ', '.',
\* '-', '=' in the result, puts '_' in their places, leaves every other
\* character as it is in its place, and flattening the result again gives
\* the same result.
C4_FlattenIdempotentTotal ==
    /\ Len(fkOut) >= 1 =>
          /\ Len(fkOut[1]) = Len(fkIn)
          /\ \A i \in 1..Len(fkIn) :
                /\ fkOut[1][i] \notin Flattened
                /\ fkIn[i] \in Flattened => fkOut[1][i] = "_"
                /\ fkIn[i] \notin Flattened => fkOut[1][i] = fkIn[i]
    /\ Len(fkOut) = 2 => fkOut[2] = fkOut[1]

C4_Witness ==
    /\ fkIn = <<"a", "=", ".">>
    /\ fkOut = << <<"a", "_", "_">>, <<"a", "_", "_">> >>

====
